---------------------------- MODULE Spec2Model ----------------------------
(***************************************************************************)
(* vcprompt-rs: the status acquisition and rendering pipeline.             *)
(*                                                                         *)
(* Text is modelled as a sequence of one-character strings, so that the    *)
(* parsers and the template engine work on characters as the Rust code     *)
(* does.  A character outside printable ASCII is written as its code       *)
(* point ("U+25CF" is the one character U+25CF, "U+001B" is ESC).          *)
(***************************************************************************)
EXTENDS Integers, Sequences, FiniteSets, TLC

VARIABLES
    pc,         \* position of the run / of the harness
    vcs,        \* the backend under test (parser harness)
    report,     \* the structured status report the backend tool prints
    input,      \* the text of that report, as handed to parse_status
    result,     \* what parse_status returned
    dirs,       \* the ancestry of the working directory, root first
    ctx,        \* what get_vcs returned
    markers,    \* files present under <root>/.git
    created,    \* the order in which the marker files were created
    list,       \* the operations list get_operations appends to
    status,     \* the Status Record handed to the renderer
    style,      \* the OutputStyle
    fmt_string, \* the format string argument (an Option)
    env,        \* the process environment: variable name -> Option value
    layout,     \* get_output's `output` before the color loop
    output,     \* what get_output returned
    opts,       \* the parsed command line
    cmds,       \* the external commands run so far, with their outcomes
    stdout,     \* the lines printed to standard output
    stderr,     \* the messages printed to standard error
    exit,       \* the exit code, once the process has ended
    hgfiles     \* the files .hg/branch and .hg/bookmarks.current

vars == <<pc, vcs, report, input, result, dirs, ctx, markers, created, list,
          status, style, fmt_string, env, layout, output,
          opts, cmds, stdout, stderr, exit, hgfiles>>

parseVars == <<vcs, report, input, result>>
detectVars == <<dirs, ctx>>
opsVars == <<markers, created, list>>
renderVars == <<status, style, fmt_string, env, layout, output>>
runVars == <<opts, cmds, stdout, stderr, exit, hgfiles>>

(***************************************************************************)
(* Bounds of the model.                                                    *)
(***************************************************************************)
MaxLines == 3
MaxDepth == 3

None == [some |-> FALSE]
Some(v) == [some |-> TRUE, val |-> v]

(***************************************************************************)
(* Characters and strings (Rust str methods).                              *)
(***************************************************************************)
Digits == <<"0", "1", "2", "3", "4", "5", "6", "7", "8", "9">>

IsDigit(c) == \E d \in 1..10 : Digits[d] = c

DigitVal(c) == (CHOOSE d \in 1..10 : Digits[d] = c) - 1

starts_with(s, p) == Len(s) >= Len(p) /\ SubSeq(s, 1, Len(p)) = p

ends_with(s, p) == Len(s) >= Len(p) /\ SubSeq(s, Len(s) - Len(p) + 1, Len(s)) = p

\* The first index of character c in s, 0 when there is none.
Find(s, c) ==
    IF \E i \in 1..Len(s) : s[i] = c
    THEN CHOOSE i \in 1..Len(s) : s[i] = c /\ \A j \in 1..(i - 1) : s[j] # c
    ELSE 0

RECURSIVE split(_, _)
\* str::split(char): the pieces between the occurrences of c, at least one.
split(s, c) ==
    LET i == Find(s, c)
    IN  IF i = 0 THEN <<s>>
        ELSE <<SubSeq(s, 1, i - 1)>> \o split(SubSeq(s, i + 1, Len(s)), c)

\* str::lines(): split at "\n", a final line ending is optional, and a
\* trailing "\r" of a line is dropped.
lines(text) ==
    LET raw == split(text, "\n")
        kept == IF raw[Len(raw)] = <<>> THEN SubSeq(raw, 1, Len(raw) - 1) ELSE raw
        strip(l) == IF ends_with(l, <<"\r">>) THEN SubSeq(l, 1, Len(l) - 1) ELSE l
    IN  [i \in 1..Len(kept) |-> strip(kept[i])]

\* Iterator::next() on the pieces of a split: the i-th piece or None.
next(parts, i) == IF i <= Len(parts) THEN Some(parts[i]) ELSE None

unwrap_or(o, d) == IF o.some THEN o.val ELSE d

RECURSIVE DecValue(_)
DecValue(s) ==
    IF s = <<>> THEN 0
    ELSE 10 * DecValue(SubSeq(s, 1, Len(s) - 1)) + DigitVal(s[Len(s)])

I32Max == 2147483647

\* str::parse::<i32>(): an optional sign, then one or more digits, in range.
\* (Inputs are kept short enough for the value to fit the checker's integers.)
parse_i32(s) ==
    LET signed == Len(s) > 0 /\ s[1] \in {"+", "-"}
        body == IF signed THEN Tail(s) ELSE s
    IN  IF body = <<>> \/ Len(body) > 9 \/ \E i \in 1..Len(body) : ~IsDigit(body[i])
        THEN [ok |-> FALSE, val |-> 0]
        ELSE [ok |-> TRUE,
              val |-> IF s[1] = "-" THEN 0 - DecValue(body) ELSE DecValue(body)]

as_u32(v) == v

\* i32::abs() as u32
abs_u32(v) == IF v < 0 THEN 0 - v ELSE v

(***************************************************************************)
(* status.rs, vcs.rs                                                       *)
(***************************************************************************)
VCS == {"Git", "Hg"}

\* VCS::default_symbol
default_symbol(v) == IF v = "Git" THEN <<"U+00B1">> ELSE <<"U+263F">>

Status_new_one_untracked(v) ==
    [name |-> v, symbol |-> default_symbol(v),
     branch |-> <<>>, commit |-> <<>>,
     ahead |-> 0, behind |-> 0, staged |-> 0, changed |-> 0,
     untracked |-> 1, conflicts |-> 0, added |-> 0, deleted |-> 0,
     operations |-> <<>>]

\* Status::new
Status_new(v) ==
    [name |-> v, symbol |-> default_symbol(v),
     branch |-> <<>>, commit |-> <<>>,
     ahead |-> 0, behind |-> 0, staged |-> 0, changed |-> 0,
     untracked |-> 0, conflicts |-> 0, added |-> 0, deleted |-> 0,
     operations |-> <<>>]

\* Status::is_clean
is_clean_ignores_untracked(s) == s.staged = 0 /\ s.conflicts = 0 /\ s.changed = 0

is_clean(s) == s.staged = 0 /\ s.conflicts = 0 /\ s.changed = 0 /\ s.untracked = 0

Ok(v) == [ok |-> TRUE, val |-> v, err |-> <<>>]
Err(e) == [ok |-> FALSE, val |-> <<>>, err |-> e]

UNKNOWN == <<"<", "u", "n", "k", "n", "o", "w", "n", ">">>
BRANCH_HEAD == <<"b", "r", "a", "n", "c", "h", ".", "h", "e", "a", "d">>
BRANCH_OID == <<"b", "r", "a", "n", "c", "h", ".", "o", "i", "d">>
BRANCH_AB == <<"b", "r", "a", "n", "c", "h", ".", "a", "b">>
FAILED_TO_PARSE == <<"F", "a", "i", "l", "e", "d", " ", "t", "o", " ", "p", "a", "r", "s", "e">>

(***************************************************************************)
(* git.rs: parse_status                                                    *)
(***************************************************************************)
\* The "1" | "2" arm: the XY code is the second piece of the line.
git_count_xy_else(st, xy) ==
    IF ~xy.some THEN st
    ELSE IF ~starts_with(xy.val, <<".">>) THEN [st EXCEPT !.staged = @ + 1]
    ELSE IF ~ends_with(xy.val, <<".">>) THEN [st EXCEPT !.changed = @ + 1]
    ELSE st

git_count_xy(st, xy) ==
    IF ~xy.some THEN st
    ELSE LET s1 == IF ~starts_with(xy.val, <<".">>)
                   THEN [st EXCEPT !.staged = @ + 1] ELSE st
         IN  IF ~ends_with(xy.val, <<".">>)
             THEN [s1 EXCEPT !.changed = @ + 1] ELSE s1

\* The "#" arm: branch.head, branch.oid, branch.ab.
git_header(st, parts) ==
    LET key == next(parts, 2)
    IN  IF key = Some(BRANCH_HEAD)
        THEN Ok([st EXCEPT !.branch = unwrap_or(next(parts, 3), UNKNOWN)])
        ELSE IF key = Some(BRANCH_OID)
        THEN Ok([st EXCEPT !.commit = unwrap_or(next(parts, 3), UNKNOWN)])
        ELSE IF key = Some(BRANCH_AB)
        THEN LET a == parse_i32(unwrap_or(next(parts, 3), <<"0">>))
                 b == parse_i32(unwrap_or(next(parts, 4), <<"0">>))
             IN  IF ~a.ok \/ ~b.ok THEN Err(FAILED_TO_PARSE)
                 ELSE Ok([st EXCEPT !.ahead = abs_u32(a.val),
                                    !.behind = abs_u32(b.val)])
        ELSE Ok(st)

\* One iteration of the loop over status.lines().
git_parse_line(st, line) ==
    LET parts == split(line, " ")
        kind == unwrap_or(next(parts, 1), <<>>)
    IN  IF kind = <<"#">> THEN git_header(st, parts)
        ELSE IF kind \in {<<"1">>, <<"2">>} THEN Ok(git_count_xy(st, next(parts, 2)))
        ELSE IF kind = <<"u">> THEN Ok([st EXCEPT !.conflicts = @ + 1])
        ELSE IF kind = <<"?">> THEN Ok([st EXCEPT !.untracked = @ + 1])
        ELSE Ok(st)

RECURSIVE git_parse_lines(_, _, _)
git_parse_lines(st, ls, i) ==
    IF i > Len(ls) THEN Ok(st)
    ELSE LET r == git_parse_line(st, ls[i])
         IN  IF r.ok THEN git_parse_lines(r.val, ls, i + 1) ELSE r

git_parse_status(text) == git_parse_lines(Status_new("Git"), lines(text), 1)

(***************************************************************************)
(* hg.rs: parse_status                                                     *)
(***************************************************************************)
hg_parse_line_no_missing(st, line) ==
    LET code == next(split(line, " "), 1)
    IN  IF code \in {Some(<<"M">>), Some(<<"A">>), Some(<<"R">>)}
        THEN [st EXCEPT !.staged = @ + 1]
        ELSE IF code = Some(<<"?">>) THEN [st EXCEPT !.untracked = @ + 1]
        ELSE st

hg_parse_line(st, line) ==
    LET code == next(split(line, " "), 1)
    IN  IF code \in {Some(<<"M">>), Some(<<"A">>), Some(<<"R">>), Some(<<"!">>)}
        THEN [st EXCEPT !.staged = @ + 1]
        ELSE IF code = Some(<<"?">>) THEN [st EXCEPT !.untracked = @ + 1]
        ELSE st

RECURSIVE hg_parse_lines(_, _, _)
hg_parse_lines(st, ls, i) ==
    IF i > Len(ls) THEN st ELSE hg_parse_lines(hg_parse_line(st, ls[i]), ls, i + 1)

hg_parse_status(text) == hg_parse_lines(Status_new("Hg"), lines(text), 1)

(***************************************************************************)
(* The status reports the two tools print (the parsers' input).            *)
(***************************************************************************)
RECURSIVE Concat(_)
Concat(ss) == IF ss = <<>> THEN <<>> ELSE Head(ss) \o Concat(Tail(ss))

\* git status --porcelain=2 --branch: the kinds of line of the report.
GitReportLines ==
    {[kind |-> "#", xy |-> <<>>, rest |-> BRANCH_HEAD \o <<" ", "m", "a", "i", "n">>],
     [kind |-> "#", xy |-> <<>>, rest |-> BRANCH_AB \o <<" ", "+", "1", " ", "-", "2">>],
     [kind |-> "1", xy |-> <<".", "M">>, rest |-> <<"N", ".", ".", ".", " ", "f">>],
     [kind |-> "1", xy |-> <<"M", ".">>, rest |-> <<"N", ".", ".", ".", " ", "f">>],
     [kind |-> "1", xy |-> <<"M", "D">>, rest |-> <<"N", ".", ".", ".", " ", "f">>],
     [kind |-> "2", xy |-> <<"R", ".">>, rest |-> <<"N", ".", ".", ".", " ", "R", "1", "0", "0", " ", "f", " ", "g">>],
     [kind |-> "2", xy |-> <<"C", "M">>, rest |-> <<"N", ".", ".", ".", " ", "C", "7", "5", " ", "f", " ", "g">>],
     [kind |-> "u", xy |-> <<"U", "U">>, rest |-> <<"N", ".", ".", ".", " ", "f">>],
     [kind |-> "?", xy |-> <<>>, rest |-> <<"f">>],
     [kind |-> "!", xy |-> <<>>, rest |-> <<"f">>],
     [kind |-> "", xy |-> <<>>, rest |-> <<>>]}

\* hg status: a one-letter code, a space, the path.
HgReportLines ==
    {[kind |-> k, xy |-> <<>>, rest |-> <<"f">>] : k \in {"M", "A", "R", "C", "?", "!", "I"}}
    \cup {[kind |-> "", xy |-> <<>>, rest |-> <<>>]}

ReportLineText(l) ==
    IF l.kind = "" THEN <<"\n">>
    ELSE <<l.kind>> \o (IF l.xy = <<>> THEN <<>> ELSE <<" ">> \o l.xy)
         \o <<" ">> \o l.rest \o <<"\n">>

ReportText(r) == Concat([i \in 1..Len(r) |-> ReportLineText(r[i])])

Reports(vocabulary) == UNION {[1..n -> vocabulary] : n \in 0..MaxLines}

(***************************************************************************)
(* The parser harness: a report is drawn, its text is parsed.              *)
(***************************************************************************)
Idle == <<>>

IdleParse == vcs = "Git" /\ report = <<>> /\ input = <<>> /\ result = Idle
IdleDetect == dirs = <<>> /\ ctx = None
IdleOps == markers = {} /\ created = <<>> /\ list = <<>>
IdleRender ==
    /\ status = Idle /\ style = "Detailed" /\ fmt_string = None
    /\ env = <<>> /\ layout = Idle /\ output = Idle
IdleRun ==
    /\ opts = Idle /\ cmds = <<>> /\ stdout = <<>> /\ stderr = <<>>
    /\ exit = None /\ hgfiles = Idle

InitParse ==
    /\ pc = "parse"
    /\ vcs \in VCS
    /\ report \in Reports(IF vcs = "Git" THEN GitReportLines ELSE HgReportLines)
    /\ input = ReportText(report)
    /\ result = Idle
    /\ IdleDetect /\ IdleOps /\ IdleRender /\ IdleRun

GitParseStatus ==
    /\ pc = "parse" /\ vcs = "Git"
    /\ result' = git_parse_status(input)
    /\ pc' = "parsed"
    /\ UNCHANGED <<vcs, report, input, detectVars, opsVars, renderVars, runVars>>

HgParseStatus ==
    /\ pc = "parse" /\ vcs = "Hg"
    /\ result' = Ok(hg_parse_status(input))
    /\ pc' = "parsed"
    /\ UNCHANGED <<vcs, report, input, detectVars, opsVars, renderVars, runVars>>

NextParse == GitParseStatus \/ HgParseStatus

SpecParse == InitParse /\ [][NextParse]_vars

\* The number of lines of the report that satisfy P.
CountLines(P(_)) == Cardinality({i \in 1..Len(report) : P(report[i])})

\* C1: the git parse_status returns staged = the number of "1"/"2" lines
\* whose XY code does not start with ".", and changed = the number of
\* "1"/"2" lines whose XY code does not end with "."; a line with both
\* characters set counts in both, and no other line kind changes either.
C1_GitStagedChanged ==
    (pc = "parsed" /\ vcs = "Git") =>
        /\ result.ok
        /\ LET Staged(l) == l.kind \in {"1", "2"} /\ l.xy[1] # "."
               Changed(l) == l.kind \in {"1", "2"} /\ l.xy[2] # "."
           IN  /\ result.val.staged = CountLines(Staged)
               /\ result.val.changed = CountLines(Changed)

C1_Witness ==
    /\ pc = "parsed" /\ vcs = "Git" /\ result.ok
    /\ \E i \in 1..Len(report) : report[i].xy = <<"M", "D">>
    /\ \E i \in 1..Len(report) : report[i].kind = "u"
    /\ result.val.staged = 2 /\ result.val.changed = 1

\* C10: the hg parse_status returns staged = the number of lines whose code
\* is M, A, R or !, untracked = the number of lines whose code is ?, and
\* leaves changed, conflicts, ahead and behind at 0.
C10_HgCounts ==
    (pc = "parsed" /\ vcs = "Hg") =>
        LET Staged(l) == l.kind \in {"M", "A", "R", "!"}
            Untracked(l) == l.kind = "?"
        IN  /\ result.ok
            /\ result.val.staged = CountLines(Staged)
            /\ result.val.untracked = CountLines(Untracked)
            /\ result.val.changed = 0 /\ result.val.conflicts = 0
            /\ result.val.ahead = 0 /\ result.val.behind = 0

C10_Witness ==
    /\ pc = "parsed" /\ vcs = "Hg"
    /\ \E i \in 1..Len(report) : report[i].kind = "!"
    /\ \E i \in 1..Len(report) : report[i].kind = "C"
    /\ \E i \in 1..Len(report) : report[i].kind = "?"
    /\ result.val.staged = 1 /\ result.val.untracked = 1

(***************************************************************************)
(* vcs.rs: the backend detector                                            *)
(***************************************************************************)
GIT_MARKER == ".git/HEAD"
HG_MARKER == ".hg/00changelog.i"

\* VCContext::defaults: the backends with their marker paths, in order.
defaults_hg_first ==
    <<[system |-> "Hg", rootdir |-> HG_MARKER],
      [system |-> "Git", rootdir |-> GIT_MARKER]>>

defaults ==
    <<[system |-> "Git", rootdir |-> GIT_MARKER],
      [system |-> "Hg", rootdir |-> HG_MARKER]>>

\* A directory of the ancestry is the set of marker paths that exist in it;
\* fs[1] is the filesystem root and fs[Len(fs)] the working directory.  An
\* empty ancestry stands for env::current_dir() failing.
current_dir(fs) == IF Len(fs) = 0 THEN None ELSE Some(Len(fs))

parent(path) == IF path > 1 THEN Some(path - 1) ELSE None

RECURSIVE match_defaults(_, _, _)
\* The inner loop: the first backend of defaults whose marker exists in path.
match_defaults(fs, path, k) ==
    IF k > Len(defaults) THEN None
    ELSE IF defaults[k].rootdir \in fs[path]
         THEN Some([system |-> defaults[k].system, rootdir |-> path])
         ELSE match_defaults(fs, path, k + 1)

RECURSIVE walk_up(_, _)
\* The outer loop: while let Some(path) = cwd.
walk_up(fs, cwd) ==
    IF ~cwd.some THEN None
    ELSE LET hit == match_defaults(fs, cwd.val, 1)
         IN  IF hit.some THEN hit ELSE walk_up(fs, parent(cwd.val))

\* VCContext::get_vcs
get_vcs(fs) == walk_up(fs, current_dir(fs))

DirChoices == SUBSET {GIT_MARKER, HG_MARKER}

Ancestries == UNION {[1..n -> DirChoices] : n \in 0..MaxDepth}

InitDetect ==
    /\ pc = "detect"
    /\ dirs \in Ancestries
    /\ ctx = None
    /\ IdleParse /\ IdleOps /\ IdleRender /\ IdleRun

Detect ==
    /\ pc = "detect"
    /\ ctx' = get_vcs(dirs)
    /\ pc' = "detected"
    /\ UNCHANGED <<dirs, parseVars, opsVars, renderVars, runVars>>

NextDetect == Detect

SpecDetect == InitDetect /\ [][NextDetect]_vars

\* C2: get_vcs returns the innermost directory of the ancestry in which a
\* marker of either backend exists, with Git as the backend when .git/HEAD
\* exists there (also next to .hg/00changelog.i) and Hg otherwise; it
\* returns nothing when no directory up to the root has a marker.
C2_InnermostWins ==
    pc = "detected" =>
        LET marked == {d \in 1..Len(dirs) : dirs[d] # {}}
        IN  IF marked = {} THEN ctx = None
            ELSE LET inner == CHOOSE d \in marked : \A e \in marked : e <= d
                 IN  /\ ctx.some
                     /\ ctx.val.rootdir = inner
                     /\ ctx.val.system = IF GIT_MARKER \in dirs[inner] THEN "Git" ELSE "Hg"

C2_Witness ==
    /\ pc = "detected"
    /\ Len(dirs) = 3
    /\ dirs[1] = {GIT_MARKER}
    /\ dirs[2] = {GIT_MARKER, HG_MARKER}
    /\ dirs[3] = {}
    /\ ctx = Some([system |-> "Git", rootdir |-> 2])

(***************************************************************************)
(* git.rs: the operation scanner                                           *)
(***************************************************************************)
OPERATIONS ==
    <<[fname |-> "rebase-merge", op |-> <<"R", "E", "B", "A", "S", "E">>],
      [fname |-> "rebase-apply", op |-> <<"A", "M", "/", "R", "E", "B", "A", "S", "E">>],
      [fname |-> "MERGE_HEAD", op |-> <<"M", "E", "R", "G", "I", "N", "G">>],
      [fname |-> "CHERRY_PICK_HEAD",
       op |-> <<"C", "H", "E", "R", "R", "Y", "-", "P", "I", "C", "K", "I", "N", "G">>],
      [fname |-> "REVERT_HEAD", op |-> <<"R", "E", "V", "E", "R", "T", "I", "N", "G">>],
      [fname |-> "BISECT_LOG", op |-> <<"B", "I", "S", "E", "C", "T", "I", "N", "G">>]>>

RECURSIVE scan_operations(_, _, _)
\* The loop over OPERATIONS.iter(), from entry k on.
scan_operations(l, gitdir, k) ==
    IF k > Len(OPERATIONS) THEN l
    ELSE scan_operations(IF OPERATIONS[k].fname \in gitdir
                         THEN Append(l, OPERATIONS[k].op) ELSE l,
                         gitdir, k + 1)

RECURSIVE scan_operations_first(_, _, _)
scan_operations_first(l, gitdir, k) ==
    IF k > Len(OPERATIONS) THEN l
    ELSE IF OPERATIONS[k].fname \in gitdir THEN Append(l, OPERATIONS[k].op)
    ELSE scan_operations_first(l, gitdir, k + 1)

get_operations_first_only(l, gitdir) == scan_operations_first(l, gitdir, 1)

\* get_operations(list, rootdir): gitdir is the set of files in <root>/.git.
get_operations(l, gitdir) == scan_operations(l, gitdir, 1)

GitDirFiles == {OPERATIONS[k].fname : k \in 1..Len(OPERATIONS)} \cup {"HEAD"}

InitOps ==
    /\ pc = "scan"
    /\ markers = {} /\ created = <<>> /\ list = <<>>
    /\ IdleParse /\ IdleDetect /\ IdleRender /\ IdleRun

\* A file appears under <root>/.git (an operation starts).
CreateMarker ==
    /\ pc = "scan"
    /\ \E f \in GitDirFiles \ markers :
        /\ markers' = markers \cup {f}
        /\ created' = Append(created, f)
    /\ UNCHANGED <<pc, list, parseVars, detectVars, renderVars, runVars>>

GetOperations ==
    /\ pc = "scan"
    /\ list' = get_operations(list, markers)
    /\ pc' = "scanned"
    /\ UNCHANGED <<markers, created, parseVars, detectVars, renderVars, runVars>>

NextOps == CreateMarker \/ GetOperations

SpecOps == InitOps /\ [][NextOps]_vars

OpNames == {OPERATIONS[k].op : k \in 1..Len(OPERATIONS)}

Rank(name) == CHOOSE k \in 1..Len(OPERATIONS) : OPERATIONS[k].op = name

FileOf(name) == OPERATIONS[Rank(name)].fname

MERGING == <<"M", "E", "R", "G", "I", "N", "G">>
BISECTING == <<"B", "I", "S", "E", "C", "T", "I", "N", "G">>

\* C9: get_operations lists one name for every marker file present under
\* <root>/.git, in the order of the OPERATIONS table whatever the order in
\* which the files were created, each name at most once; MERGE_HEAD alone
\* gives [MERGING], MERGE_HEAD with BISECT_LOG gives [MERGING, BISECTING].
C9_OperationsInTableOrder ==
    pc = "scanned" =>
        /\ \A i \in 1..Len(list) : list[i] \in OpNames /\ FileOf(list[i]) \in markers
        /\ \A n \in OpNames : FileOf(n) \in markers => \E i \in 1..Len(list) : list[i] = n
        /\ \A i, j \in 1..Len(list) : i < j => Rank(list[i]) < Rank(list[j])
        /\ (markers \ {"HEAD"} = {"MERGE_HEAD"}) => list = <<MERGING>>
        /\ (markers \ {"HEAD"} = {"MERGE_HEAD", "BISECT_LOG"}) => list = <<MERGING, BISECTING>>

C9_Witness ==
    /\ pc = "scanned"
    /\ created = <<"BISECT_LOG", "HEAD", "MERGE_HEAD">>
    /\ list = <<MERGING, BISECTING>>

(***************************************************************************)
(* util.rs: the color table.  format.rs: the template renderer.            *)
(***************************************************************************)
MaxCount == 1

MAIN_COLORS ==
    <<[k |-> <<"{", "r", "e", "s", "e", "t", "}">>,
       v |-> <<"U+001B", "[", "0", "0", "m">>],
      [k |-> <<"{", "b", "o", "l", "d", "}">>,
       v |-> <<"U+001B", "[", "0", "1", "m">>],
      [k |-> <<"{", "b", "l", "a", "c", "k", "}">>,
       v |-> <<"U+001B", "[", "3", "0", "m">>],
      [k |-> <<"{", "r", "e", "d", "}">>,
       v |-> <<"U+001B", "[", "3", "1", "m">>],
      [k |-> <<"{", "g", "r", "e", "e", "n", "}">>,
       v |-> <<"U+001B", "[", "3", "2", "m">>],
      [k |-> <<"{", "y", "e", "l", "l", "o", "w", "}">>,
       v |-> <<"U+001B", "[", "3", "3", "m">>],
      [k |-> <<"{", "b", "l", "u", "e", "}">>,
       v |-> <<"U+001B", "[", "3", "4", "m">>],
      [k |-> <<"{", "m", "a", "g", "e", "n", "t", "a", "}">>,
       v |-> <<"U+001B", "[", "3", "5", "m">>],
      [k |-> <<"{", "c", "y", "a", "n", "}">>,
       v |-> <<"U+001B", "[", "3", "6", "m">>],
      [k |-> <<"{", "w", "h", "i", "t", "e", "}">>,
       v |-> <<"U+001B", "[", "3", "7", "m">>]>>

\* globals::COLORS
COLORS ==
    <<[k |-> <<"{", "r", "e", "s", "e", "t", "}">>,
       v |-> <<"U+001B", "[", "0", "0", "m">>],
      [k |-> <<"{", "b", "o", "l", "d", "}">>,
       v |-> <<"U+001B", "[", "0", "1", "m">>],
      [k |-> <<"{", "b", "l", "a", "c", "k", "}">>,
       v |-> <<"U+001B", "[", "3", "0", "m">>],
      [k |-> <<"{", "r", "e", "d", "}">>,
       v |-> <<"U+001B", "[", "3", "1", "m">>],
      [k |-> <<"{", "g", "r", "e", "e", "n", "}">>,
       v |-> <<"U+001B", "[", "3", "2", "m">>],
      [k |-> <<"{", "y", "e", "l", "l", "o", "w", "}">>,
       v |-> <<"U+001B", "[", "3", "3", "m">>],
      [k |-> <<"{", "b", "l", "u", "e", "}">>,
       v |-> <<"U+001B", "[", "3", "4", "m">>],
      [k |-> <<"{", "m", "a", "g", "e", "n", "t", "a", "}">>,
       v |-> <<"U+001B", "[", "3", "5", "m">>],
      [k |-> <<"{", "c", "y", "a", "n", "}">>,
       v |-> <<"U+001B", "[", "3", "6", "m">>],
      [k |-> <<"{", "g", "r", "a", "y", "}">>,
       v |-> <<"U+001B", "[", "3", "8", ";", "5", ";", "2", "4", "8", "m">>],
      [k |-> <<"{", "w", "h", "i", "t", "e", "}">>,
       v |-> <<"U+001B", "[", "3", "7", "m">>],
      [k |-> <<"{", "b", "l", "a", "c", "k", "_", "o", "n", "_", "g", "r", "e", "e", "n", "}">>,
       v |-> <<"U+001B", "[", "4", "8", ";", "5", ";", "2", "m", "U+001B", "[", "3", "0", "m">>]>>

\* The built-in field templates of get_output.
DEFAULT_VARIABLES ==
    ("VCP_PREFIX" :> <<>>) @@
    ("VCP_SUFFIX" :> <<"{", "r", "e", "s", "e", "t", "}">>) @@
    ("VCP_SEPARATOR" :> <<"{", "r", "e", "s", "e", "t", "}", "|">>) @@
    ("VCP_NAME" :> <<"{", "s", "y", "m", "b", "o", "l", "}">>) @@
    ("VCP_BRANCH" :> <<"{", "c", "y", "a", "n", "}", "{", "v", "a", "l", "u", "e", "}",
                       "{", "r", "e", "s", "e", "t", "}">>) @@
    ("VCP_COMMIT" :> <<"{", "b", "l", "a", "c", "k", "_", "o", "n", "_", "g", "r", "e", "e", "n", "}",
                       "{", "v", "a", "l", "u", "e", "}", "{", "r", "e", "s", "e", "t", "}">>) @@
    ("VCP_OPERATION" :> <<"{", "r", "e", "d", "}", "{", "v", "a", "l", "u", "e", "}",
                          "{", "r", "e", "s", "e", "t", "}">>) @@
    ("VCP_BEHIND" :> <<"U+21E3", "{", "v", "a", "l", "u", "e", "}">>) @@
    ("VCP_AHEAD" :> <<"U+21E1", "{", "v", "a", "l", "u", "e", "}">>) @@
    ("VCP_STAGED" :> <<"{", "b", "l", "u", "e", "}", "U+25CF", "{", "v", "a", "l", "u", "e", "}">>) @@
    ("VCP_CHANGED" :> <<"{", "y", "e", "l", "l", "o", "w", "}", "U+0394",
                        "{", "v", "a", "l", "u", "e", "}">>) @@
    ("VCP_CONFLICTS" :> <<"{", "r", "e", "d", "}", "U+203C", "{", "v", "a", "l", "u", "e", "}">>) @@
    ("VCP_UNTRACKED" :> <<"{", "g", "r", "a", "y", "}", "U+2026", "{", "v", "a", "l", "u", "e", "}">>) @@
    ("VCP_CLEAN" :> <<"{", "g", "r", "e", "e", "n", "}", "{", "b", "o", "l", "d", "}", "U+2714">>)

VALUE == <<"{", "v", "a", "l", "u", "e", "}">>
SYMBOL == <<"{", "s", "y", "m", "b", "o", "l", "}">>
MINIMAL_STAGED ==
    <<"{", "b", "o", "l", "d", "}", "{", "y", "e", "l", "l", "o", "w", "}", "+",
      "{", "r", "e", "s", "e", "t", "}">>
MINIMAL_DIRTY == <<"{", "r", "e", "d", "}", "*", "{", "r", "e", "s", "e", "t", "}">>
DEFAULT_FORMAT == <<"%", "n", " ", "%", "b", " ", "%", "o">>
INITIAL == <<"(", "i", "n", "i", "t", "i", "a", "l", ")">>

\* A panic (an out-of-range slice) ends the run without a value.
Panic == Err(<<"panic">>)

\* env::var(k)
env_var(e, k) == IF k \in DOMAIN e THEN e[k] ELSE None

RECURSIVE to_string(_)
\* u32::to_string: the decimal digits.
to_string(n) ==
    IF n < 10 THEN <<Digits[n + 1]>>
    ELSE to_string(n \div 10) \o <<Digits[(n % 10) + 1]>>

\* VCS::to_string
vcs_to_string(v) == IF v = "Git" THEN <<"g", "i", "t">> ELSE <<"h", "g">>

\* The start of the first occurrence of pattern from in s at or after
\* position i, 0 when there is none.
find_from(s, i, from) ==
    LET hits == {j \in i..(Len(s) - Len(from) + 1) :
                    s[j] = from[1] /\ SubSeq(s, j, j + Len(from) - 1) = from}
    IN  IF hits = {} THEN 0 ELSE CHOOSE j \in hits : \A k \in hits : j <= k

RECURSIVE replace_from(_, _, _, _)
\* str::replace(from, to): every non-overlapping match, left to right.
replace_from(s, i, from, to) ==
    LET j == find_from(s, i, from)
    IN  IF j = 0 THEN SubSeq(s, i, Len(s))
        ELSE SubSeq(s, i, j - 1) \o to \o replace_from(s, j + Len(from), from, to)

replace_first(s, from, to) ==
    LET j == find_from(s, 1, from)
    IN  IF j = 0 THEN s
        ELSE SubSeq(s, 1, j - 1) \o to \o SubSeq(s, j + Len(from), Len(s))

replace(s, from, to) == replace_from(s, 1, from, to)

RECURSIVE color_loop(_, _, _)
\* for (k, v) in colors.iter() { output = output.replace(k, v) }
color_loop(colors, text, i) ==
    IF i > Len(colors) THEN text
    ELSE color_loop(colors, replace(text, colors[i].k, colors[i].v), i + 1)

\* The color loop of format.rs, over globals::COLORS.
resolve_colors(text) == color_loop(COLORS, text, 1)

\* The template table: each default, overridden from the environment.
get_variables(e) ==
    [k \in DOMAIN DEFAULT_VARIABLES |-> unwrap_or(env_var(e, k), DEFAULT_VARIABLES[k])]

render_name_value_only(st, variables) ==
    replace(variables["VCP_NAME"], VALUE, vcs_to_string(st.name))

\* The name field: {value} is the backend's name, {symbol} its symbol.
render_name(st, variables) ==
    replace(replace(variables["VCP_NAME"], VALUE, vcs_to_string(st.name)),
            SYMBOL, st.symbol)

render_count_even_zero(variables, key, n) ==
    IF n >= 0 THEN replace(variables[key], VALUE, to_string(n)) ELSE <<>>

\* if status.<count> > 0 { output.push_str(&template.replace("{value}", count)) }
render_count(variables, key, n) ==
    IF n > 0 THEN replace(variables[key], VALUE, to_string(n)) ELSE <<>>

render_clean(st, variables) == IF is_clean(st) THEN variables["VCP_CLEAN"] ELSE <<>>

\* Status::fmt_commit(len)
fmt_commit(st, len) ==
    IF st.commit # INITIAL
    THEN IF Len(st.commit) < len THEN Panic ELSE Ok(SubSeq(st.commit, 1, len))
    ELSE Ok(st.commit)

format_full_ahead_first(st, variables) ==
    Ok(Concat(<<
        variables["VCP_PREFIX"],
        render_name(st, variables),
        replace(variables["VCP_BRANCH"], VALUE, st.branch),
        render_count(variables, "VCP_AHEAD", st.ahead),
        render_count(variables, "VCP_BEHIND", st.behind),
        Concat([i \in 1..Len(st.operations) |->
                   variables["VCP_SEPARATOR"]
                   \o replace(variables["VCP_OPERATION"], VALUE, st.operations[i])]),
        variables["VCP_SEPARATOR"],
        render_count(variables, "VCP_STAGED", st.staged),
        render_count(variables, "VCP_CONFLICTS", st.conflicts),
        render_count(variables, "VCP_CHANGED", st.changed),
        render_count(variables, "VCP_UNTRACKED", st.untracked),
        render_clean(st, variables),
        variables["VCP_SUFFIX"]>>))

\* format_full: the Detailed layout.
format_full(st, variables) ==
    Ok(Concat(<<
        variables["VCP_PREFIX"],
        render_name(st, variables),
        replace(variables["VCP_BRANCH"], VALUE, st.branch),
        render_count(variables, "VCP_BEHIND", st.behind),
        render_count(variables, "VCP_AHEAD", st.ahead),
        Concat([i \in 1..Len(st.operations) |->
                   variables["VCP_SEPARATOR"]
                   \o replace(variables["VCP_OPERATION"], VALUE, st.operations[i])]),
        variables["VCP_SEPARATOR"],
        render_count(variables, "VCP_STAGED", st.staged),
        render_count(variables, "VCP_CONFLICTS", st.conflicts),
        render_count(variables, "VCP_CHANGED", st.changed),
        render_count(variables, "VCP_UNTRACKED", st.untracked),
        render_clean(st, variables),
        variables["VCP_SUFFIX"]>>))

\* format_minimal: the Minimal layout.
format_minimal(st, variables) ==
    Ok(Concat(<<
        variables["VCP_PREFIX"],
        replace(variables["VCP_BRANCH"], VALUE, st.branch),
        IF st.staged > 0 THEN MINIMAL_STAGED ELSE <<>>,
        IF ~is_clean(st) THEN MINIMAL_DIRTY ELSE <<>>,
        render_count(variables, "VCP_BEHIND", st.behind),
        render_count(variables, "VCP_AHEAD", st.ahead),
        variables["VCP_SUFFIX"]>>))

\* One directive of the format string: what "%<c>" appends.
directive(st, variables, c) ==
    CASE c = "n" -> Ok(render_name(st, variables))
      [] c = "b" -> Ok(replace(variables["VCP_BRANCH"], VALUE, st.branch))
      [] c = "c" -> LET commit == fmt_commit(st, 7)
                    IN  IF commit.ok
                        THEN Ok(replace(variables["VCP_COMMIT"], VALUE, commit.val))
                        ELSE commit
      [] c = "A" -> Ok(render_count(variables, "VCP_AHEAD", st.ahead))
      [] c = "B" -> Ok(render_count(variables, "VCP_BEHIND", st.behind))
      [] c = "s" -> Ok(render_count(variables, "VCP_STAGED", st.staged))
      [] c = "U" -> Ok(render_count(variables, "VCP_CONFLICTS", st.conflicts))
      [] c = "m" -> Ok(render_count(variables, "VCP_CHANGED", st.changed))
      [] c = "u" -> Ok(render_count(variables, "VCP_UNTRACKED", st.untracked))
      [] c = "o" -> Ok(Concat([i \in 1..Len(st.operations) |->
                          replace(variables["VCP_OPERATION"], VALUE, st.operations[i])]))
      [] OTHER -> Ok(<<c>>)

RECURSIVE scan_format_rescans(_, _, _, _, _)
scan_format_rescans(st, variables, fmt, i, out) ==
    IF i > Len(fmt) THEN Ok(out)
    ELSE IF fmt[i] = "%"
         THEN IF i + 1 > Len(fmt) THEN Ok(out)
              ELSE LET d == directive(st, variables, fmt[i + 1])
                   IN  IF d.ok THEN scan_format_rescans(st, variables, fmt, i + 1, out \o d.val)
                       ELSE d
         ELSE scan_format_rescans(st, variables, fmt, i + 1, Append(out, fmt[i]))

RECURSIVE scan_format(_, _, _, _, _)
\* while let Some(c) = fmt_string_chars.next(): the scan from character i on.
scan_format(st, variables, fmt, i, out) ==
    IF i > Len(fmt) THEN Ok(out)
    ELSE IF fmt[i] = "%"
         THEN IF i + 1 > Len(fmt) THEN Ok(out)
              ELSE LET d == directive(st, variables, fmt[i + 1])
                   IN  IF d.ok THEN scan_format(st, variables, fmt, i + 2, out \o d.val)
                       ELSE d
         ELSE scan_format(st, variables, fmt, i + 1, Append(out, fmt[i]))

\* format_from_string up to its color loop: the scan of the pattern, the
\* clean indicator and the suffix.
format_from_string_text(st, variables, fmt, e) ==
    LET pattern == unwrap_or(fmt, unwrap_or(env_var(e, "VCP_FORMAT"), DEFAULT_FORMAT))
        body == scan_format(st, variables, pattern, 1, <<>>)
    IN  IF ~body.ok THEN body
        ELSE Ok(body.val \o render_clean(st, variables) \o variables["VCP_SUFFIX"])

\* format_from_string: the FormatString mode (it resolves the colors itself).
format_from_string(st, variables, fmt, e) ==
    LET text == format_from_string_text(st, variables, fmt, e)
    IN  IF ~text.ok THEN text ELSE Ok(resolve_colors(text.val))

\* get_output, up to the color loop: the text of the chosen layout.
get_layout(st, sty, fmt, e) ==
    CASE sty = "Detailed" -> format_full(st, get_variables(e))
      [] sty = "Minimal" -> format_minimal(st, get_variables(e))
      [] sty = "FormatString" -> format_from_string(st, get_variables(e), fmt, e)

\* get_output: the layout, then the color loop.
get_output(st, sty, fmt, e) ==
    LET text == get_layout(st, sty, fmt, e)
    IN  IF text.ok THEN Ok(resolve_colors(text.val)) ELSE text

(***************************************************************************)
(* The renderer harness: a Status Record, a style and an environment are   *)
(* drawn, get_output renders them.                                         *)
(***************************************************************************)
MAIN == <<"m", "a", "i", "n">>
RED == <<"{", "r", "e", "d", "}">>
HASH == <<"d", "c", "7", "1", "6", "b", "0", "6", "1", "d">>
REBASE == <<"R", "E", "B", "A", "S", "E">>
ALL_DIRECTIVES ==
    <<"%", "c", ":", "%", "B", "%", "A", "%", "s", "%", "U", "%", "m", "%", "u",
      "%", "o", "%", "x", "%">>

\* Branch names: an ordinary one, and names that read as a color tag or as
\* the placeholder of a template (all are valid git branch names).
NESTED == <<"{", "r", "e", "{", "b", "o", "l", "d", "}", "d", "}">>
BranchChoices == {MAIN, RED, VALUE, NESTED}
CommitChoices == {HASH, INITIAL, <<>>}
OperationChoices == {<<>>, <<REBASE, MERGING>>}
FormatChoices == {None, Some(ALL_DIRECTIVES)}

NoEnv == [k \in {} |-> None]

\* An environment that overrides three templates and the format.
CustomEnv ==
    ("VCP_NAME" :> Some(<<"{", "v", "a", "l", "u", "e", "}", ":", "{", "s", "y", "m", "b", "o", "l", "}">>)) @@
    ("VCP_UNTRACKED" :> Some(<<"{", "w", "h", "i", "t", "e", "}", "?", "{", "v", "a", "l", "u", "e", "}">>)) @@
    ("VCP_SUFFIX" :> Some(<<"{", "r", "e", "s", "e", "t", "}", " ">>)) @@
    ("VCP_FORMAT" :> Some(<<"%", "n", "%", "b", "%", "u">>))

EnvChoices == {NoEnv, CustomEnv}

Counts == 0..MaxCount

MASTER == <<"m", "a", "s", "t", "e", "r">>

\* The record of the Detailed round-trip scenario.
DETAILED_SCENARIO ==
    [Status_new("Git") EXCEPT
        !.branch = MASTER, !.commit = HASH,
        !.ahead = 1, !.behind = 2, !.staged = 3, !.untracked = 1]

RenderStatuses ==
    {[Status_new(v) EXCEPT
         !.branch = b, !.operations = o,
         !.ahead = n[1], !.behind = n[2], !.staged = n[3],
         !.conflicts = n[4], !.changed = n[5], !.untracked = n[6]] :
     v \in VCS, b \in BranchChoices, o \in OperationChoices, n \in [1..6 -> Counts]}
    \cup {DETAILED_SCENARIO}

InitRender ==
    /\ pc = "render"
    /\ style \in {"Detailed", "Minimal", "FormatString"}
    /\ fmt_string \in IF style = "FormatString" THEN FormatChoices ELSE {None}
    /\ \E s \in RenderStatuses, c \in CommitChoices :
        /\ fmt_string = None => c = HASH
        /\ status = [s EXCEPT !.commit = c]
    /\ env \in EnvChoices
    /\ layout = Idle /\ output = Idle
    /\ IdleParse /\ IdleDetect /\ IdleOps /\ IdleRun

GetOutput ==
    /\ pc = "render"
    /\ layout' = get_layout(status, style, fmt_string, env)
    /\ output' = get_output(status, style, fmt_string, env)
    /\ pc' = "rendered"
    /\ UNCHANGED <<status, style, fmt_string, env, parseVars, detectVars, opsVars, runVars>>

NextRender == GetOutput

SpecRender == InitRender /\ [][NextRender]_vars

contains(s, sub) ==
    \E i \in 1..(Len(s) - Len(sub) + 1) : SubSeq(s, i, i + Len(sub) - 1) = sub

\* The counter fields with their templates, and the layouts that show them.
CounterKey ==
    [ahead |-> "VCP_AHEAD", behind |-> "VCP_BEHIND", staged |-> "VCP_STAGED",
     conflicts |-> "VCP_CONFLICTS", changed |-> "VCP_CHANGED",
     untracked |-> "VCP_UNTRACKED"]

CounterFields == DOMAIN CounterKey

ShownIn(sty) == IF sty = "Detailed" THEN CounterFields ELSE {"ahead", "behind"}

\* The environment e with the template of key replaced by another one.
WithTemplate(e, key, template) ==
    [k \in DOMAIN e \cup {key} |-> IF k = key THEN Some(template) ELSE e[k]]

OTHER_TEMPLATE == <<"#", "{", "v", "a", "l", "u", "e", "}">>

\* C5: in the Detailed and the Minimal layout a counter that is 0 adds
\* nothing to the output: the output is the same whatever the counter's
\* template is, and the template with "0" for {value} is not in it; a
\* counter that is positive and that the layout shows is in the output as
\* its template with {value} replaced by the count.
C5_ZeroCountersSilent ==
    (pc = "rendered" /\ style \in {"Detailed", "Minimal"}) =>
        \A f \in CounterFields :
            LET key == CounterKey[f]
                template == get_variables(env)[key]
            IN  /\ status[f] = 0 =>
                    /\ layout = get_layout(status, style, fmt_string,
                                           WithTemplate(env, key, OTHER_TEMPLATE))
                    /\ output = get_output(status, style, fmt_string,
                                           WithTemplate(env, key, OTHER_TEMPLATE))
                    /\ ~contains(layout.val, replace(template, VALUE, <<"0">>))
                /\ (status[f] > 0 /\ f \in ShownIn(style)) =>
                    /\ contains(layout.val, replace(template, VALUE, to_string(status[f])))
                    /\ contains(output.val,
                                resolve_colors(replace(template, VALUE, to_string(status[f]))))

C5_Witness ==
    /\ pc = "rendered" /\ style = "Detailed"
    /\ status.untracked = 0 /\ status.conflicts = 0 /\ status.changed = 0
    /\ status.staged > 0 /\ status.behind > 0 /\ status.ahead = 0
    /\ contains(layout.val, <<"U+25CF", "1">>)
    /\ ~contains(layout.val, <<"U+2026">>)

FourZero(s) == s.staged = 0 /\ s.changed = 0 /\ s.untracked = 0 /\ s.conflicts = 0

\* C6: is_clean() is true exactly when staged, changed, untracked and
\* conflicts are all 0; the clean indicator is in the output only if the
\* record is clean; the output always ends with the suffix, and in the
\* Detailed and FormatString modes of a clean record with the clean
\* indicator directly before it.
C6_CleanIndicator ==
    (pc = "rendered" /\ output.ok) =>
        LET variables == get_variables(env)
            clean == resolve_colors(variables["VCP_CLEAN"])
            suffix == resolve_colors(variables["VCP_SUFFIX"])
        IN  /\ is_clean(status) <=> FourZero(status)
            /\ contains(output.val, clean) => FourZero(status)
            /\ ends_with(output.val, suffix)
            /\ (style \in {"Detailed", "FormatString"} /\ FourZero(status)) =>
                   ends_with(output.val, clean \o suffix)

C6_Witness ==
    /\ pc = "rendered" /\ output.ok /\ style = "FormatString"
    /\ FourZero(status) /\ status.ahead > 0 /\ status.operations # <<>>
    /\ ends_with(output.val, <<"U+2714", "U+001B", "[", "0", "0", "m">>)

\* C7: after get_output's color pass the output holds no key of the Color
\* Table, a second pass leaves it unchanged, and in FormatString mode, where
\* format_from_string has already run the pass, get_output's pass changes
\* nothing.
C7_ColorsResolved ==
    (pc = "rendered" /\ output.ok) =>
        /\ \A i \in 1..Len(COLORS) : ~contains(output.val, COLORS[i].k)
        /\ resolve_colors(output.val) = output.val
        /\ style = "FormatString" => output = layout

C7_Witness ==
    /\ pc = "rendered" /\ output.ok /\ style = "FormatString"
    /\ status.branch = NESTED /\ status.untracked > 0
    /\ contains(output.val, <<"U+001B", "[", "3", "6", "m", "{", "r", "e", "U+001B">>)

\* C8: a value of the Status Record that holds {value}, {symbol} or a color
\* tag is in the final output unchanged (stated for the branch, which the
\* Detailed and the Minimal layout always show).
C8_DataAppearsUnchanged ==
    (pc = "rendered" /\ style \in {"Detailed", "Minimal"}) =>
        contains(output.val, status.branch)

\* A part of a layout that is there only under a condition.
When(cond, text) == IF cond THEN text ELSE <<>>

\* A template with {value} replaced.
Shown(template, value) == replace(template, VALUE, value)

\* The parts of the Detailed layout, in order.
DetailedParts(st, t) ==
    <<t["VCP_PREFIX"],
      replace(Shown(t["VCP_NAME"], vcs_to_string(st.name)), SYMBOL, st.symbol),
      Shown(t["VCP_BRANCH"], st.branch),
      When(st.behind > 0, Shown(t["VCP_BEHIND"], to_string(st.behind))),
      When(st.ahead > 0, Shown(t["VCP_AHEAD"], to_string(st.ahead)))>>
    \o [i \in 1..Len(st.operations) |->
           t["VCP_SEPARATOR"] \o Shown(t["VCP_OPERATION"], st.operations[i])]
    \o <<t["VCP_SEPARATOR"],
         When(st.staged > 0, Shown(t["VCP_STAGED"], to_string(st.staged))),
         When(st.conflicts > 0, Shown(t["VCP_CONFLICTS"], to_string(st.conflicts))),
         When(st.changed > 0, Shown(t["VCP_CHANGED"], to_string(st.changed))),
         When(st.untracked > 0, Shown(t["VCP_UNTRACKED"], to_string(st.untracked))),
         When(FourZero(st), t["VCP_CLEAN"]),
         t["VCP_SUFFIX"]>>

\* C15: the Detailed layout is, in this order, the prefix, the name, the
\* branch, behind and ahead (each only if > 0), a separator and the
\* operation template for each operation, one more separator, staged,
\* conflicts, changed and untracked (each only if > 0), the clean indicator
\* (only if clean) and the suffix; for the scenario record with default
\* templates the output has the cyan branch, the behind marker with 2
\* before the ahead marker with 1, the staged marker with 3, the untracked
\* marker with 1, and no changed, conflicts or clean marker.
C15_DetailedOrder ==
    (pc = "rendered" /\ style = "Detailed") =>
        /\ layout = Ok(Concat(DetailedParts(status, get_variables(env))))
        /\ output = Ok(resolve_colors(layout.val))
        /\ (status = DETAILED_SCENARIO /\ env = NoEnv) =>
               LET behind == find_from(output.val, 1, <<"U+21E3", "2">>)
                   ahead == find_from(output.val, 1, <<"U+21E1", "1">>)
               IN  /\ contains(output.val,
                               <<"U+001B", "[", "3", "6", "m">> \o MASTER
                               \o <<"U+001B", "[", "0", "0", "m">>)
                   /\ 0 < behind /\ behind < ahead
                   /\ contains(output.val, <<"U+25CF", "3">>)
                   /\ contains(output.val, <<"U+2026", "1">>)
                   /\ ~contains(output.val, <<"U+0394">>)
                   /\ ~contains(output.val, <<"U+203C">>)
                   /\ ~contains(output.val, <<"U+2714">>)

C15_Witness ==
    /\ pc = "rendered" /\ style = "Detailed" /\ output.ok
    /\ status = DETAILED_SCENARIO /\ env = NoEnv
    /\ contains(output.val, <<"U+21E3", "2", "U+21E1", "1">>)

(***************************************************************************)
(* The format-string harness: every pattern of up to MaxPattern characters *)
(* over the directives, "%" and an ordinary character, and the default     *)
(* pattern, rendered in FormatString mode for a few Status Records.        *)
(***************************************************************************)
MaxPattern == 3

DIAMOND == <<"U+2666">>
SHORT_COMMIT == <<"a", "b", "c">>

Directives == {"n", "b", "c", "A", "B", "s", "U", "m", "u", "o"}

PatternAlphabet == Directives \cup {"%", "x"}

Patterns == UNION {[1..n -> PatternAlphabet] : n \in 0..MaxPattern}

\* The record of the "%n %b %o" scenario.
SCENARIO ==
    [Status_new("Git") EXCEPT
        !.symbol = DIAMOND, !.branch = MAIN, !.commit = HASH, !.operations = <<REBASE>>]

FormatStatuses ==
    {SCENARIO,
     [Status_new("Git") EXCEPT
        !.branch = MAIN, !.commit = INITIAL, !.operations = <<REBASE, MERGING>>,
        !.ahead = 1, !.behind = 2, !.staged = 3, !.conflicts = 1, !.changed = 1,
        !.untracked = 12],
     [Status_new("Git") EXCEPT !.branch = MAIN, !.commit = SHORT_COMMIT, !.changed = 1],
     [Status_new("Hg") EXCEPT !.branch = MAIN, !.staged = 1]}

InitFormat ==
    /\ pc = "render"
    /\ style = "FormatString"
    /\ fmt_string \in {None} \cup {Some(p) : p \in Patterns}
    /\ status \in FormatStatuses
    /\ env \in EnvChoices
    /\ layout = Idle /\ output = Idle
    /\ IdleParse /\ IdleDetect /\ IdleOps /\ IdleRun

SpecFormat == InitFormat /\ [][NextRender]_vars

SCENARIO_TEXT ==
    <<"U+2666", " ", "{", "c", "y", "a", "n", "}", "m", "a", "i", "n", "{", "r", "e", "s", "e", "t", "}",
      " ", "{", "r", "e", "d", "}", "R", "E", "B", "A", "S", "E", "{", "r", "e", "s", "e", "t", "}">>
CLEAN_AND_SUFFIX ==
    <<"{", "g", "r", "e", "e", "n", "}", "{", "b", "o", "l", "d", "}", "U+2714",
      "{", "r", "e", "s", "e", "t", "}">>

\* The "%n %b %o" scenario has been rendered: the pattern given or left to
\* its default, the templates at their defaults.
ScenarioRendered ==
    /\ pc = "rendered" /\ status = SCENARIO /\ env = NoEnv
    /\ fmt_string \in {None, Some(DEFAULT_FORMAT)}

\* C13 as stated: the scenario's text before color resolution is exactly
\* "<diamond> {cyan}main{reset} {red}REBASE{reset}".
C13_ScenarioText ==
    ScenarioRendered =>
        format_from_string_text(status, get_variables(env), fmt_string, env)
            = Ok(SCENARIO_TEXT)

\* C13: the scenario's text before color resolution is
\* "<diamond> {cyan}main{reset} {red}REBASE{reset}" followed by the clean
\* indicator (the record is clean) and the suffix, and the output is that
\* text with its color tags resolved.
C13_ScenarioTextThenCleanAndSuffix ==
    ScenarioRendered =>
        /\ format_from_string_text(status, get_variables(env), fmt_string, env)
               = Ok(SCENARIO_TEXT \o CLEAN_AND_SUFFIX)
        /\ output = Ok(resolve_colors(SCENARIO_TEXT \o CLEAN_AND_SUFFIX))
        /\ starts_with(output.val,
                       <<"U+2666", " ", "U+001B", "[", "3", "6", "m", "m", "a", "i", "n",
                         "U+001B", "[", "0", "0", "m", " ", "U+001B", "[", "3", "1", "m",
                         "R", "E", "B", "A", "S", "E", "U+001B", "[", "0", "0", "m">>)

C13_Witness ==
    /\ ScenarioRendered /\ fmt_string = None /\ output.ok
    /\ contains(output.val, <<"R", "E", "B", "A", "S", "E">>)

\* The pattern in use: the one given, else VCP_FORMAT, else the default.
PatternOf(fmt, e) == unwrap_or(fmt, unwrap_or(env_var(e, "VCP_FORMAT"), DEFAULT_FORMAT))

\* The start of the run of "%" characters that ends at position i.
RunStart(p, i) == CHOOSE j \in 1..i :
    /\ \A k \in j..i : p[k] = "%"
    /\ j = 1 \/ p[j - 1] # "%"

\* Position i holds a "%" that introduces a directive: in a run of "%"
\* characters the first, third, ... do, the others are what they introduce.
Lead(p, i) == p[i] = "%" /\ (i - RunStart(p, i)) % 2 = 0

\* Position i is the character a "%" introduces.
Led(p, i) == i > 1 /\ Lead(p, i - 1)

\* The pattern asks for the commit.
UsesCommit(p) == \E i \in 1..Len(p) : Led(p, i) /\ p[i] = "c"

\* fmt_commit has something to return: 7 characters, or "(initial)".
Cuttable(st) == st.commit = INITIAL \/ Len(st.commit) >= 7

\* What the field named by a directive character renders as.
Rendering(st, t, c) ==
    CASE c = "n" -> replace(Shown(t["VCP_NAME"], vcs_to_string(st.name)), SYMBOL, st.symbol)
      [] c = "b" -> Shown(t["VCP_BRANCH"], st.branch)
      [] c = "c" -> Shown(t["VCP_COMMIT"],
                          IF st.commit = INITIAL THEN INITIAL ELSE SubSeq(st.commit, 1, 7))
      [] c = "A" -> When(st.ahead > 0, Shown(t["VCP_AHEAD"], to_string(st.ahead)))
      [] c = "B" -> When(st.behind > 0, Shown(t["VCP_BEHIND"], to_string(st.behind)))
      [] c = "s" -> When(st.staged > 0, Shown(t["VCP_STAGED"], to_string(st.staged)))
      [] c = "U" -> When(st.conflicts > 0, Shown(t["VCP_CONFLICTS"], to_string(st.conflicts)))
      [] c = "m" -> When(st.changed > 0, Shown(t["VCP_CHANGED"], to_string(st.changed)))
      [] c = "u" -> When(st.untracked > 0, Shown(t["VCP_UNTRACKED"], to_string(st.untracked)))
      [] c = "o" -> Concat([i \in 1..Len(st.operations) |->
                               Shown(t["VCP_OPERATION"], st.operations[i])])
      [] OTHER -> <<c>>

\* What position i of the pattern adds to the output; last_percent is what
\* a "%" with no character after it adds.
Piece(st, t, p, i, last_percent) ==
    IF Lead(p, i) THEN (IF i = Len(p) THEN last_percent ELSE <<>>)
    ELSE IF Led(p, i) THEN Rendering(st, t, p[i])
    ELSE <<p[i]>>

\* The FormatString output: the pieces in pattern order, the clean
\* indicator, the suffix, with the color tags resolved.
Scanned(last_percent) ==
    LET t == get_variables(env)
        p == PatternOf(fmt_string, env)
    IN  resolve_colors(
            Concat([i \in 1..Len(p) |-> Piece(status, t, p, i, last_percent)])
            \o When(FourZero(status), t["VCP_CLEAN"]) \o t["VCP_SUFFIX"])

Prefix(s, n) == SubSeq(s, 1, IF Len(s) < n THEN Len(s) ELSE n)

\* C18: for every Status Record, also one whose commit is empty or shorter
\* than 7 characters, %c renders: fmt_commit does not fail, and the output
\* has the commit template applied to the first 7 characters of the commit
\* (all of it when it is shorter), or to the whole commit "(initial)".
C18_CommitAlwaysRenders ==
    (pc = "rendered" /\ UsesCommit(PatternOf(fmt_string, env))) =>
        /\ fmt_commit(status, 7).ok
        /\ output.ok
        /\ contains(output.val,
                    resolve_colors(Shown(get_variables(env)["VCP_COMMIT"],
                                         IF status.commit = INITIAL THEN INITIAL
                                         ELSE Prefix(status.commit, 7))))

(***************************************************************************)
(* The header harness: reports made of "#" header lines, with and without  *)
(* their values.  Each line carries what git means by it: the key, the     *)
(* value of branch.head / branch.oid, the two counts of branch.ab, or bad  *)
(* when a count is not a number.                                           *)
(***************************************************************************)
Header(k, text, v, a, b, isbad) ==
    [kind |-> "#", xy |-> <<>>, rest |-> text,
     key |-> k, val |-> v, ahead |-> a, behind |-> b, bad |-> isbad]

GitHeaderLines ==
    {Header("head", BRANCH_HEAD \o <<" ">> \o MAIN, MAIN, 0, 0, FALSE),
     Header("head", BRANCH_HEAD, UNKNOWN, 0, 0, FALSE),
     Header("oid", BRANCH_OID \o <<" ">> \o HASH, HASH, 0, 0, FALSE),
     Header("oid", BRANCH_OID \o <<" ">> \o INITIAL, INITIAL, 0, 0, FALSE),
     Header("oid", BRANCH_OID, UNKNOWN, 0, 0, FALSE),
     Header("ab", BRANCH_AB \o <<" ", "+", "1", " ", "-", "2">>, <<>>, 1, 2, FALSE),
     Header("ab", BRANCH_AB \o <<" ", "-", "3", " ", "+", "1", "0">>, <<>>, 3, 10, FALSE),
     Header("ab", BRANCH_AB \o <<" ", "+", "1">>, <<>>, 1, 0, FALSE),
     Header("ab", BRANCH_AB, <<>>, 0, 0, FALSE),
     Header("ab", BRANCH_AB \o <<" ", "+", "x", " ", "-", "2">>, <<>>, 0, 0, TRUE),
     Header("ab", BRANCH_AB \o <<" ", "+", "1", " ", "-">>, <<>>, 0, 0, TRUE),
     Header("upstream", <<"b", "r", "a", "n", "c", "h", ".", "u", "p", "s", "t", "r", "e", "a", "m",
                          " ", "o", "/", "m">>, <<>>, 0, 0, FALSE),
     [kind |-> "?", xy |-> <<>>, rest |-> <<"f">>,
      key |-> "", val |-> <<>>, ahead |-> 0, behind |-> 0, bad |-> FALSE]}

InitHeaders ==
    /\ pc = "parse"
    /\ vcs \in VCS
    /\ report \in Reports(IF vcs = "Git" THEN GitHeaderLines ELSE HgReportLines)
    /\ input = ReportText(report)
    /\ result = Idle
    /\ IdleDetect /\ IdleOps /\ IdleRender /\ IdleRun

SpecHeaders == InitHeaders /\ [][NextParse]_vars

\* The last line of the report with key k, 0 when there is none.
LastHeader(k) ==
    LET at == {i \in 1..Len(report) : report[i].key = k}
    IN  IF at = {} THEN 0 ELSE CHOOSE i \in at : \A j \in at : j <= i

\* No header k, or the last one has no value.
Valueless(k) ==
    LastHeader(k) = 0 \/ report[LastHeader(k)].rest \in {BRANCH_HEAD, BRANCH_OID, BRANCH_AB}

\* C12: with no branch.head, branch.oid or branch.ab header (or with the
\* header present without a value) the git record has branch "<unknown>",
\* commit "<unknown>", ahead 0 and behind 0 respectively; the record of the
\* hg parse_status has branch "<unknown>".
C12_MissingHeadersDefault ==
    (pc = "parsed" /\ result.ok) =>
        /\ vcs = "Git" =>
               /\ Valueless("head") => result.val.branch = UNKNOWN
               /\ Valueless("oid") => result.val.commit = UNKNOWN
               /\ Valueless("ab") => result.val.ahead = 0 /\ result.val.behind = 0
        /\ vcs = "Hg" => result.val.branch = UNKNOWN

\* The branch.ab lines of the report with a count that is not a number.
BadAb == {i \in 1..Len(report) : report[i].key = "ab" /\ report[i].bad}

\* C19: when every '# branch.ab A B' line of the report has fields that
\* parse as signed integers, the git parse_status sets ahead = |A| and
\* behind = |B| (of the last such line); when a field of some branch.ab
\* line is there but is not an integer, parse_status returns an error and
\* no Status Record, whatever the other lines are.
C19_BranchAbParsedOrError ==
    (pc = "parsed" /\ vcs = "Git") =>
        IF BadAb # {}
        THEN ~result.ok /\ result.val = <<>> /\ result.err = FAILED_TO_PARSE
        ELSE /\ result.ok
             /\ LastHeader("ab") # 0 =>
                    /\ result.val.ahead = report[LastHeader("ab")].ahead
                    /\ result.val.behind = report[LastHeader("ab")].behind

C19_Witness ==
    /\ pc = "parsed" /\ vcs = "Git" /\ Len(report) = 3
    /\ report[1].key = "ab" /\ report[1].ahead = 3 /\ report[1].behind = 10
    /\ report[2].key = "head"
    /\ report[3].key = "ab" /\ report[3].bad
    /\ ~result.ok

\* The eight counters of a Status Record.
AllCounters ==
    {"ahead", "behind", "staged", "changed", "untracked", "conflicts", "added", "deleted"}

\* C11: for each backend, parsing the empty status text yields the freshly
\* constructed record of that backend: every counter is 0, is_clean() is
\* true and operations is empty.
C11_EmptyParseIsZeroRecord ==
    (pc = "parsed" /\ input = <<>>) =>
        /\ result.ok
        /\ result.val = Status_new(vcs)
        /\ result.val.name = vcs
        /\ \A f \in AllCounters : result.val[f] = 0
        /\ is_clean(result.val)
        /\ result.val.operations = <<>>

C11_Witness ==
    /\ pc = "parsed" /\ vcs = "Hg" /\ report = <<>> /\ input = <<>>
    /\ result.ok /\ result.val.name = "Hg" /\ result.val.staged = 0

(***************************************************************************)
(* util.rs, git.rs, hg.rs: running the status commands.                    *)
(*                                                                         *)
(* The outcome of running a process is [spawned, success, stdout, stderr]; *)
(* a byte stream is [utf8, text], text being its lossy decoding (invalid   *)
(* bytes read as U+FFFD).  A file is None when it cannot be opened, else   *)
(* Some of its bytes.                                                      *)
(***************************************************************************)
MaxRunDepth == 2

Bytes(t) == [utf8 |-> TRUE, text |-> t]
Garbled(t) == [utf8 |-> FALSE, text |-> t]

\* String::from_utf8(bytes).unwrap_or_default()
from_utf8_or_default(b) == IF b.utf8 THEN b.text ELSE <<>>

\* String::from_utf8_lossy(bytes)
from_utf8_lossy(b) == b.text

IsSpace(c) == c \in {" ", "U+0009", "\n", "\r"}

\* str::trim
trim(t) ==
    LET solid == {i \in 1..Len(t) : ~IsSpace(t[i])}
    IN  IF solid = {} THEN <<>>
        ELSE SubSeq(t, CHOOSE i \in solid : \A j \in solid : i <= j,
                       CHOOSE i \in solid : \A j \in solid : j <= i)

RECURSIVE split_whitespace(_)
\* str::split_whitespace: the maximal runs of non-whitespace characters.
split_whitespace(t) ==
    LET solid == {i \in 1..Len(t) : ~IsSpace(t[i])}
    IN  IF solid = {} THEN <<>>
        ELSE LET a == CHOOSE i \in solid : \A j \in solid : i <= j
                 gaps == {i \in a..Len(t) : IsSpace(t[i])}
                 b == IF gaps = {} THEN Len(t) + 1
                      ELSE CHOOSE i \in gaps : \A j \in gaps : i <= j
             IN  <<SubSeq(t, a, b - 1)>> \o split_whitespace(SubSeq(t, b, Len(t)))

\* str::parse::<u32>(): an optional "+", then one or more digits.
parse_u32(t) ==
    LET body == IF Len(t) > 0 /\ t[1] = "+" THEN Tail(t) ELSE t
    IN  IF body = <<>> \/ Len(body) > 9 \/ \E i \in 1..Len(body) : ~IsDigit(body[i])
        THEN [ok |-> FALSE, val |-> 0]
        ELSE [ok |-> TRUE, val |-> DecValue(body)]

IO_ERROR == <<"i", "o", ":", ":", "E", "r", "r", "o", "r">>
COMMAND_FAILED ==
    <<"C", "o", "m", "m", "a", "n", "d", " ", "f", "a", "i", "l", "e", "d", ":", " ", "U+0060">>
FAILED_TO_EXECUTE_HG ==
    <<"F", "a", "i", "l", "e", "d", " ", "t", "o", " ", "e", "x", "e", "c", "u", "t", "e",
      " ", "\"", "h", "g", "\"">>
DEFAULT_BRANCH == <<"d", "e", "f", "a", "u", "l", "t">>

\* util.rs exec_cmd
exec_cmd(o) ==
    IF ~o.spawned THEN Err(IO_ERROR)
    ELSE LET stdout_string == from_utf8_or_default(o.stdout)
             stderr_string == from_utf8_or_default(o.stderr)
         IN  IF ~o.success
             THEN Err(COMMAND_FAILED \o stdout_string \o <<"'", ":", " ">> \o stderr_string)
             ELSE Ok([stdout |-> stdout_string, stderr |-> stderr_string])

parse_diff_line_added_only(st, line) ==
    LET fields == split_whitespace(line)
        a == parse_u32(unwrap_or(next(fields, 1), <<>>))
    IN  [st EXCEPT !.added = @ + (IF a.ok THEN a.val ELSE 0)]

\* One line of git.rs parse_diff.
parse_diff_line(st, line) ==
    LET fields == split_whitespace(line)
        a == parse_u32(unwrap_or(next(fields, 1), <<>>))
        d == parse_u32(unwrap_or(next(fields, 2), <<>>))
    IN  [st EXCEPT !.added = @ + (IF a.ok THEN a.val ELSE 0),
                   !.deleted = @ + (IF d.ok THEN d.val ELSE 0)]

RECURSIVE parse_diff_lines(_, _, _)
parse_diff_lines(st, ls, i) ==
    IF i > Len(ls) THEN st
    ELSE parse_diff_lines(parse_diff_line(st, ls[i]), ls, i + 1)

\* git.rs parse_diff
parse_diff(diff, st) == parse_diff_lines(st, lines(diff), 1)

\* git.rs status: so and do are the outcomes of git status and git diff,
\* gitdir the files under <root>/.git.
git_status(gitdir, so, do) ==
    LET status_output == exec_cmd(so)
        diff_output == exec_cmd(do)
        parsed == git_parse_status(status_output.val.stdout)
    IN  IF ~status_output.ok THEN status_output
        ELSE IF ~diff_output.ok THEN diff_output
        ELSE IF ~parsed.ok THEN parsed
        ELSE LET r == parse_diff(diff_output.val.stdout, parsed.val)
             IN  Ok([r EXCEPT !.operations = get_operations(@, gitdir)])

\* util.rs exec: run the command, hand back its raw output.
exec(o) == IF ~o.spawned THEN Err(IO_ERROR) ELSE Ok(o)

\* hg.rs get_status: the error built for a non-zero exit is not returned.
hg_get_status(o) ==
    LET r == exec(o)
    IN  IF ~r.ok THEN Err(FAILED_TO_EXECUTE_HG)
        ELSE Ok(from_utf8_lossy(r.val.stdout))

\* hg.rs get_branch
get_branch(files) ==
    IF ~files.branch.some THEN Ok(DEFAULT_BRANCH)
    ELSE IF ~files.branch.val.utf8 THEN Err(IO_ERROR)
    ELSE Ok(trim(files.branch.val.text))

\* hg.rs get_bookmark
get_bookmark(files) ==
    IF ~files.bookmark.some THEN Ok(<<>>)
    ELSE IF ~files.bookmark.val.utf8 THEN Panic
    ELSE Ok(<<"*">> \o trim(files.bookmark.val.text))

\* hg.rs status
hg_status(files, o) ==
    LET status_str == hg_get_status(o)
        branch == get_branch(files)
        bookmark == get_bookmark(files)
    IN  IF ~status_str.ok THEN status_str
        ELSE IF ~branch.ok THEN branch
        ELSE IF ~bookmark.ok THEN bookmark
        ELSE Ok([hg_parse_status(status_str.val) EXCEPT !.branch = branch.val \o bookmark.val])

(***************************************************************************)
(* The diff harness: a git diff --numstat text is drawn line by line, each *)
(* line with the two counts git means by it, and parse_diff adds it to a   *)
(* Status Record.                                                          *)
(***************************************************************************)
Numstat(t, a, d) == [text |-> t, added |-> a, deleted |-> d]

DiffLines ==
    {Numstat(<<"3", "U+0009", "1", "U+0009", "f">>, 3, 1),
     Numstat(<<"1", "0", "U+0009", "0", "U+0009", "a", " ", "b">>, 10, 0),
     Numstat(<<"-", "U+0009", "-", "U+0009", "b", "i", "n">>, 0, 0),
     Numstat(<<"x", "U+0009", "2", "U+0009", "f">>, 0, 2),
     Numstat(<<"4", "U+0009", "-", "1", "U+0009", "f">>, 4, 0),
     Numstat(<<" ", "7", " ", " ", "+", "2">>, 7, 2),
     Numstat(<<"5">>, 5, 0),
     Numstat(<<"1", ".", "5", "U+0009", "2", "e", "3", "U+0009", "f">>, 0, 0),
     Numstat(<<>>, 0, 0)}

DiffReports == UNION {[1..n -> DiffLines] : n \in 0..MaxLines}

DiffText(r) == Concat([i \in 1..Len(r) |-> r[i].text \o <<"\n">>])

\* The record parse_diff is given: a fresh one, or one that parse_status
\* has filled.
DiffStarts ==
    {Status_new("Git"),
     [Status_new("Git") EXCEPT
        !.branch = MAIN, !.commit = HASH, !.ahead = 1, !.behind = 2, !.staged = 1,
        !.changed = 1, !.untracked = 1, !.conflicts = 1, !.added = 2, !.deleted = 1]}

InitDiff ==
    /\ pc = "diff"
    /\ vcs = "Git"
    /\ report \in DiffReports
    /\ input = DiffText(report)
    /\ result = Idle
    /\ status \in DiffStarts
    /\ style = "Detailed" /\ fmt_string = None /\ env = <<>>
    /\ layout = Idle /\ output = Idle
    /\ IdleDetect /\ IdleOps /\ IdleRun

ParseDiff ==
    /\ pc = "diff"
    /\ result' = Ok(parse_diff(input, status))
    /\ pc' = "diffed"
    /\ UNCHANGED <<vcs, report, input, detectVars, opsVars, renderVars, runVars>>

NextDiff == ParseDiff

SpecDiff == InitDiff /\ [][NextDiff]_vars

RECURSIVE SumOf(_, _)
\* The sum of field f over the lines of report r.
SumOf(r, f) == IF r = <<>> THEN 0 ELSE Head(r)[f] + SumOf(Tail(r), f)

\* C20: parse_diff adds to added and deleted the first and the second
\* whitespace-delimited field of each line, 0 for a field that is missing
\* or is not a non-negative integer; it does not fail and changes no other
\* field of the Status Record.
C20_ParseDiffTolerant ==
    pc = "diffed" =>
        /\ result.ok
        /\ result.val = [status EXCEPT !.added = @ + SumOf(report, "added"),
                                       !.deleted = @ + SumOf(report, "deleted")]

C20_Witness ==
    /\ pc = "diffed" /\ Len(report) = 3
    /\ report[1].text = <<"-", "U+0009", "-", "U+0009", "b", "i", "n">>
    /\ report[2].text = <<"4", "U+0009", "-", "1", "U+0009", "f">>
    /\ report[3].text = <<"5">>
    /\ status.added = 2
    /\ result.val.added = 11 /\ result.val.deleted = 1 /\ result.val.staged = 1

(***************************************************************************)
(* main.rs: its own template table, color table and layouts.               *)
(***************************************************************************)
MAIN_VARIABLES ==
    ("VCP_PREFIX" :> <<>>) @@
    ("VCP_SUFFIX" :> <<"{", "r", "e", "s", "e", "t", "}">>) @@
    ("VCP_SEPARATOR" :> <<"|">>) @@
    ("VCP_NAME" :> <<"{", "s", "y", "m", "b", "o", "l", "}">>) @@
    ("VCP_BRANCH" :> <<"{", "b", "l", "u", "e", "}", "{", "v", "a", "l", "u", "e", "}",
                       "{", "r", "e", "s", "e", "t", "}">>) @@
    ("VCP_OPERATION" :> <<"{", "r", "e", "d", "}", "{", "v", "a", "l", "u", "e", "}",
                          "{", "r", "e", "s", "e", "t", "}">>) @@
    ("VCP_BEHIND" :> <<"U+2193", "{", "v", "a", "l", "u", "e", "}">>) @@
    ("VCP_AHEAD" :> <<"U+2191", "{", "v", "a", "l", "u", "e", "}">>) @@
    ("VCP_STAGED" :> <<"{", "r", "e", "d", "}", "U+25CF", "{", "v", "a", "l", "u", "e", "}">>) @@
    ("VCP_CONFLICTS" :> <<"{", "r", "e", "d", "}", "U+2716", "{", "v", "a", "l", "u", "e", "}">>) @@
    ("VCP_CHANGED" :> <<"{", "b", "l", "u", "e", "}", "U+271A", "{", "v", "a", "l", "u", "e", "}">>) @@
    ("VCP_UNTRACKED" :> <<"{", "r", "e", "s", "e", "t", "}", "U+2026", "{", "v", "a", "l", "u", "e", "}">>) @@
    ("VCP_CLEAN" :> <<"{", "g", "r", "e", "e", "n", "}", "{", "b", "o", "l", "d", "}", "U+2714">>)

\* The table of main.rs format(): as MAIN_VARIABLES, with other defaults
\* for the prefix and for the staged and changed counts.
TEST_VARIABLES ==
    [MAIN_VARIABLES EXCEPT
        !["VCP_PREFIX"] = <<" ">>,
        !["VCP_STAGED"] = <<"{", "b", "l", "u", "e", "}", "U+271A", "{", "v", "a", "l", "u", "e", "}">>,
        !["VCP_CHANGED"] = <<"{", "r", "e", "d", "}", "U+25CF", "{", "v", "a", "l", "u", "e", "}">>]

TEST_FORMAT == <<"%", "n", "%", "b", "%", "t", "|", "%", "l">>

\* for (k, v) in variables.iter_mut(): the defaults overridden from the
\* environment.
override(table, e) == [k \in DOMAIN table |-> unwrap_or(env_var(e, k), table[k])]

\* main.rs format_full: the text of format.rs format_full.
main_format_full(st, variables) == format_full(st, variables)

\* main.rs format_minimal
main_format_minimal(st, variables) ==
    Ok(Concat(<<
        variables["VCP_PREFIX"],
        <<"{", "c", "y", "a", "n", "}", "(">>,
        st.branch,
        <<")", "{", "r", "e", "s", "e", "t", "}">>,
        render_count(variables, "VCP_BEHIND", st.behind),
        render_count(variables, "VCP_AHEAD", st.ahead),
        IF is_clean(st) THEN <<"{", "b", "o", "l", "d", "}", "{", "g", "r", "e", "e", "n", "}">>
        ELSE IF st.staged > 0
        THEN <<"{", "b", "o", "l", "d", "}", "{", "y", "e", "l", "l", "o", "w", "}">>
        ELSE <<"{", "b", "o", "l", "d", "}", "{", "r", "e", "d", "}">>,
        <<" ", "*">>,
        <<"{", "r", "e", "s", "e", "t", "}">>,
        variables["VCP_SUFFIX"]>>))

\* main.rs print_result
print_result(st, sty, e) ==
    LET variables == override(MAIN_VARIABLES, e)
        text == IF sty = "Detailed" THEN main_format_full(st, variables)
                ELSE main_format_minimal(st, variables)
    IN  IF text.ok THEN Ok(color_loop(MAIN_COLORS, text.val, 1)) ELSE text

\* main.rs format: what one character of "%n%b%t|%l" appends.
test_directive(st, variables, c) ==
    IF c = "b" THEN replace(variables["VCP_BRANCH"], VALUE, st.branch)
    ELSE IF c = "n" THEN render_name(st, variables)
    ELSE <<>>

\* main.rs format (the --test output)
main_format(st, e) ==
    LET variables == override(TEST_VARIABLES, e)
        text == Concat([i \in 1..Len(TEST_FORMAT) |->
                           test_directive(st, variables, TEST_FORMAT[i])])
    IN  Ok(color_loop(MAIN_COLORS, text, 1))

(***************************************************************************)
(* main.rs: one run of the program.                                        *)
(***************************************************************************)
PROGRAM == <<"v", "c", "p", "r", "o", "m", "p", "t">>
VERSION == <<"CARGO_PKG_VERSION">>
USAGE == <<"U", "s", "a", "g", "e", ":", " ">> \o PROGRAM
ERROR_PREFIX == <<"E", "r", "r", "o", "r", ":", " ">>
PANICKED == <<"t", "h", "r", "e", "a", "d", " ", "'", "m", "a", "i", "n", "'", " ",
              "p", "a", "n", "i", "c", "k", "e", "d">>
FATAL == <<"f", "a", "t", "a", "l", ":", " ", "n", "o", "t", " ", "a", " ", "g", "i", "t", " ",
           "r", "e", "p", "o", "s", "i", "t", "o", "r", "y", "\n">>
ABORT == <<"a", "b", "o", "r", "t", ":", " ", "n", "o", " ", "r", "e", "p", "o", "s", "i", "t",
           "o", "r", "y", "\n">>

always_zero(r) == 0

\* The exit code of fn main() -> Result<(), Box<dyn Error>>.
exit_code(r) == IF r.ok THEN 0 ELSE 1

\* The command line as getopts parsed it: the flags and the directory
\* argument (none, one that set_current_dir accepts, one that it refuses).
OptChoices ==
    {[ok |-> FALSE, h |-> FALSE, V |-> FALSE, m |-> FALSE, t |-> FALSE, dir |-> "none"]}
    \cup [ok : {TRUE}, h : BOOLEAN, V : BOOLEAN, m : BOOLEAN, t : BOOLEAN,
          dir : {"none", "ok", "bad"}]

RunAncestries == UNION {[1..n -> DirChoices] : n \in 0..MaxRunDepth}

Ran(t, ok, out, err) == [spawned |-> t, success |-> ok, stdout |-> out, stderr |-> err]

GIT_CLEAN_REPORT == <<"#", " ">> \o BRANCH_HEAD \o <<" ">> \o MAIN \o <<"\n">>
GIT_DIRTY_REPORT ==
    GIT_CLEAN_REPORT
    \o <<"#", " ">> \o BRANCH_AB \o <<" ", "+", "1", " ", "-", "0", "\n">>
    \o <<"1", " ", "M", "D", " ", "N", ".", ".", ".", " ", "f", "\n", "?", " ", "g", "\n">>
GIT_BAD_AB_REPORT == <<"#", " ">> \o BRANCH_AB \o <<" ", "+", "x", " ", "-", "0", "\n">>

GitStatusOutcomes ==
    {Ran(FALSE, FALSE, Bytes(<<>>), Bytes(<<>>)),
     Ran(TRUE, FALSE, Bytes(<<>>), Bytes(FATAL)),
     Ran(TRUE, TRUE, Bytes(GIT_CLEAN_REPORT), Bytes(<<>>)),
     Ran(TRUE, TRUE, Bytes(GIT_DIRTY_REPORT), Bytes(<<>>)),
     Ran(TRUE, TRUE, Bytes(GIT_BAD_AB_REPORT), Bytes(<<>>)),
     Ran(TRUE, TRUE, Garbled(<<"?", " ", "U+FFFD", "\n">>), Bytes(<<>>))}

GitDiffOutcomes ==
    {Ran(TRUE, FALSE, Bytes(<<>>), Bytes(FATAL)),
     Ran(TRUE, TRUE, Bytes(<<"3", "U+0009", "1", "U+0009", "f", "\n">>), Bytes(<<>>)),
     Ran(TRUE, TRUE, Bytes(<<"-", "U+0009", "-", "U+0009", "f", "\n">>), Bytes(<<>>))}

GitDirChoices == {{"HEAD"}, {"HEAD", "MERGE_HEAD"}, {"HEAD", "BISECT_LOG", "rebase-merge"}}

HgStatusOutcomes ==
    {Ran(FALSE, FALSE, Bytes(<<>>), Bytes(<<>>)),
     Ran(TRUE, FALSE, Bytes(<<>>), Bytes(ABORT)),
     Ran(TRUE, FALSE, Bytes(<<"M", " ", "f", "\n">>), Bytes(ABORT)),
     Ran(TRUE, TRUE, Bytes(<<"M", " ", "f", "\n", "?", " ", "g", "\n">>), Bytes(<<>>)),
     Ran(TRUE, TRUE, Garbled(<<"?", " ", "U+FFFD", "\n">>), Bytes(<<>>))}

FileChoices(t) == {None, Some(Bytes(t)), Some(Garbled(<<"U+FFFD">>))}

HgFileChoices ==
    [branch : FileChoices(<<"d", "e", "v", "\n">>), bookmark : FileChoices(<<"b", "m", "\n">>)]

Init ==
    /\ pc = "start"
    /\ IdleParse /\ IdleDetect /\ IdleOps /\ IdleRender /\ IdleRun

\* opts.parse(&args[1..]): a command line getopts refuses ends the run.
ParseArgs ==
    /\ pc = "start"
    /\ \E o \in OptChoices :
        /\ opts' = o
        /\ IF o.ok
           THEN /\ pc' = "flags"
                /\ UNCHANGED <<stderr, exit>>
           ELSE /\ pc' = "usage_error"
                /\ stderr' = Append(stderr, USAGE)
                /\ exit' = Some(1)
    /\ UNCHANGED <<cmds, stdout, hgfiles, parseVars, detectVars, opsVars, renderVars>>

\* -h: the usage on standard error.
Help ==
    /\ pc = "flags" /\ opts.h
    /\ stderr' = Append(stderr, USAGE)
    /\ exit' = Some(0)
    /\ pc' = "help"
    /\ UNCHANGED <<opts, cmds, stdout, hgfiles, parseVars, detectVars, opsVars, renderVars>>

\* -V: the version on standard output.
Version ==
    /\ pc = "flags" /\ ~opts.h /\ opts.V
    /\ stdout' = Append(stdout, PROGRAM \o <<" ", "v">> \o VERSION)
    /\ exit' = Some(0)
    /\ pc' = "version"
    /\ UNCHANGED <<opts, cmds, stderr, hgfiles, parseVars, detectVars, opsVars, renderVars>>

\* The style, and env::set_current_dir(dir)? when a directory is given.
ChangeDir ==
    /\ pc = "flags" /\ ~opts.h /\ ~opts.V
    /\ style' = IF opts.m THEN "Minimal" ELSE "Detailed"
    /\ IF opts.dir = "bad"
       THEN /\ pc' = "chdir_error"
            /\ stderr' = Append(stderr, ERROR_PREFIX \o IO_ERROR)
            /\ exit' = Some(exit_code(Err(IO_ERROR)))
       ELSE /\ pc' = "get_vcs"
            /\ UNCHANGED <<stderr, exit>>
    /\ UNCHANGED <<opts, cmds, stdout, hgfiles, parseVars, detectVars, opsVars,
                   status, fmt_string, env, layout, output>>

\* VCContext::get_vcs(): no repository ends the run with nothing printed.
DetectRepo ==
    /\ pc = "get_vcs"
    /\ \E fs \in RunAncestries :
        /\ dirs' = fs
        /\ ctx' = get_vcs(fs)
        /\ IF get_vcs(fs).some
           THEN pc' = "get_status" /\ UNCHANGED exit
           ELSE pc' = "no_repo" /\ exit' = Some(exit_code(Ok(<<>>)))
    /\ UNCHANGED <<opts, cmds, stdout, stderr, hgfiles, parseVars, opsVars, renderVars>>

\* What main does with the result of vcs.get_status()?.
AfterStatus(r) ==
    /\ result' = r
    /\ IF r.ok
       THEN pc' = "print" /\ UNCHANGED <<stderr, exit>>
       ELSE IF r = Panic
       THEN /\ pc' = "panicked"
            /\ stderr' = Append(stderr, PANICKED)
            /\ exit' = Some(101)
       ELSE /\ pc' = "status_error"
            /\ stderr' = Append(stderr, ERROR_PREFIX \o r.err)
            /\ exit' = Some(exit_code(r))

\* vcs.get_status()? in a git repository: git status, then git diff.
GitStatus ==
    /\ pc = "get_status" /\ ctx.val.system = "Git"
    /\ \E so \in GitStatusOutcomes, do \in GitDiffOutcomes, gitdir \in GitDirChoices :
        /\ markers' = gitdir
        /\ cmds' = IF exec_cmd(so).ok
                   THEN <<[cmd |-> "git status", ran |-> so], [cmd |-> "git diff", ran |-> do]>>
                   ELSE <<[cmd |-> "git status", ran |-> so]>>
        /\ AfterStatus(git_status(gitdir, so, do))
    /\ UNCHANGED <<opts, stdout, hgfiles, vcs, report, input, detectVars,
                   created, list, renderVars>>

\* vcs.get_status()? in a hg repository: hg status, then the branch files.
HgStatus ==
    /\ pc = "get_status" /\ ctx.val.system = "Hg"
    /\ \E o \in HgStatusOutcomes, files \in HgFileChoices :
        /\ hgfiles' = files
        /\ cmds' = <<[cmd |-> "hg status", ran |-> o]>>
        /\ AfterStatus(hg_status(files, o))
    /\ UNCHANGED <<opts, stdout, vcs, report, input, detectVars, opsVars, renderVars>>

\* println!("{}", ...): the --test output or print_result's.
PrintResult ==
    /\ pc = "print"
    /\ \E e \in EnvChoices :
        /\ env' = e
        /\ output' = IF opts.t THEN main_format(result.val, e)
                     ELSE print_result(result.val, style, e)
    /\ stdout' = Append(stdout, output'.val)
    /\ exit' = Some(exit_code(output'))
    /\ pc' = "printed"
    /\ UNCHANGED <<opts, cmds, stderr, hgfiles, parseVars, detectVars, opsVars,
                   status, style, fmt_string, layout>>

Next ==
    \/ ParseArgs \/ Help \/ Version \/ ChangeDir \/ DetectRepo
    \/ GitStatus \/ HgStatus \/ PrintResult

Spec == Init /\ [][Next]_vars

StatusDone == pc \in {"print", "printed", "status_error", "panicked"}

\* C3: whenever a status or diff command that ran exits non-zero, status()
\* returns an error, and the error carries the command's standard error.
C3_NonZeroExitIsError ==
    StatusDone =>
        \A i \in 1..Len(cmds) :
            (cmds[i].ran.spawned /\ ~cmds[i].ran.success) =>
                /\ ~result.ok
                /\ contains(result.err, cmds[i].ran.stderr.text)

Running == pc \in {"start", "flags", "get_vcs", "get_status", "print"}

\* What every run keeps to, whatever is allowed on standard output.
RunContract(printing) ==
    /\ pc = "no_repo" => stdout = <<>> /\ exit = Some(0)
    /\ pc \in {"status_error", "panicked"} =>
           stdout = <<>> /\ exit.some /\ exit.val # 0
    /\ Running => stdout = <<>>
    /\ Len(stdout) <= 1
    /\ stdout # <<>> => pc \in printing
    /\ pc = "printed" =>
           /\ ctx.some /\ result.ok /\ output.ok
           /\ stdout = <<output.val>>
           /\ exit = Some(0)

\* C4 as stated: no repository, no output and exit code 0; a hard error in
\* status(), no output and a non-zero exit code; a line on standard output
\* only after detection, status() and rendering succeeded, and then one.
C4_OutputOnlyAfterRendering == RunContract({"printed"})

\* C4: as stated, except that a run with -V (and without -h) prints the one
\* version line, without detecting anything, and exits with 0.
C4_OutputOnlyAfterRenderingOrVersion ==
    /\ RunContract({"printed", "version"})
    /\ pc = "version" =>
           /\ opts.V /\ ~opts.h /\ ~ctx.some
           /\ stdout = <<PROGRAM \o <<" ", "v">> \o VERSION>>
           /\ exit = Some(0)

C4_Witness ==
    /\ pc = "status_error" /\ ctx.val.system = "Git"
    /\ Len(cmds) = 2 /\ ~cmds[2].ran.success
    /\ stdout = <<>> /\ exit = Some(1)

\* C14: when the output of a status or diff command that ran is not valid
\* UTF-8, status() returns an error: no Status Record is built from empty
\* or replacement text, and nothing is printed.
C14_UndecodableOutputIsError ==
    \A i \in 1..Len(cmds) :
        (cmds[i].ran.spawned /\ cmds[i].ran.success /\ ~cmds[i].ran.stdout.utf8) =>
            /\ StatusDone => ~result.ok
            /\ stdout = <<>>

\* The parts of the Minimal layout, in order, with the two literal glyphs.
MinimalParts(st, t, staged_glyph, dirty_glyph) ==
    <<t["VCP_PREFIX"],
      Shown(t["VCP_BRANCH"], st.branch),
      When(st.staged > 0, staged_glyph),
      When(~FourZero(st), dirty_glyph),
      When(st.behind > 0, Shown(t["VCP_BEHIND"], to_string(st.behind))),
      When(st.ahead > 0, Shown(t["VCP_AHEAD"], to_string(st.ahead))),
      t["VCP_SUFFIX"]>>

\* C16: the line the program prints in the Minimal style is, in this order,
\* the prefix, the branch through the branch template, a staged glyph only
\* if staged > 0, a dirty glyph only if the record is not clean, behind and
\* ahead (each only if > 0) and the suffix.  (Stated without fixing the two
\* glyphs: the line starts with the prefix and the templated branch, and
\* for a clean record it has no glyph at all.)
C16_MinimalOrder ==
    (pc = "printed" /\ style = "Minimal" /\ ~opts.t) =>
        LET t == override(MAIN_VARIABLES, env)
            st == result.val
        IN  /\ starts_with(output.val,
                           color_loop(MAIN_COLORS,
                                      t["VCP_PREFIX"] \o Shown(t["VCP_BRANCH"], st.branch), 1))
            /\ FourZero(st) =>
                   output.val = color_loop(MAIN_COLORS,
                                           Concat(MinimalParts(st, t, <<>>, <<>>)), 1)

\* A file of .hg is there and its contents can be read as text.
Readable(f) == f.some /\ f.val.utf8

\* C21: in the hg backend's status() the branch is the trimmed contents of
\* .hg/branch, or "default" when the file is absent or cannot be read,
\* followed by "*" and the trimmed contents of .hg/bookmarks.current when
\* that file is there; no state of the two files makes status() fail.
C21_HgBranchAndBookmark ==
    (StatusDone /\ ctx.val.system = "Hg" /\ cmds[1].ran.spawned) =>
        /\ result.ok
        /\ starts_with(result.val.branch,
                       IF Readable(hgfiles.branch) THEN trim(hgfiles.branch.val.text)
                       ELSE DEFAULT_BRANCH)
        /\ ~hgfiles.bookmark.some =>
               result.val.branch = (IF Readable(hgfiles.branch)
                                    THEN trim(hgfiles.branch.val.text)
                                    ELSE DEFAULT_BRANCH)
        /\ Readable(hgfiles.bookmark) =>
               ends_with(result.val.branch, <<"*">> \o trim(hgfiles.bookmark.val.text))

=============================================================================
